---- MODULE Spec2Model ----
(***************************************************************************)
(* A model of yxf, the converter between XLSForm workbooks, YAML and       *)
(* Markdown.                                                               *)
(*                                                                         *)
(* Strings are sequences of tokens (a token is a chunk of characters that  *)
(* the code never splits: a word, one backslash, one pipe, one newline),   *)
(* so that startswith, replace and the table-cell split are computed.      *)
(* A Python dict is a sequence of <<key, value>> pairs in insertion order. *)
(* A workbook cell is a record: t = "none" (empty), "num" or "str".        *)
(***************************************************************************)
EXTENDS Integers, Sequences, FiniteSets, TLC

VARIABLES
    wb,     \* the workbook file: a dict sheet name -> grid
    ydoc,   \* the YAML file
    md,     \* the Markdown file: its block nodes
    form,   \* the Form in memory
    cur,    \* what the conversion holds now: "xlsx", "yaml", "md" or "form"
    err,    \* the exception that ended the conversion, NoErr while it runs
    log,    \* the warnings of the last write_markdown
    hist,   \* the calls made so far
    form0,  \* the Form as the first reader returned it
    prev,   \* the Form before the last call
    tbody,  \* whether the installed markdown-it gives a table without body
            \* rows a tbody node (releases differ)
    args,   \* the arguments of a call of row_to_dict
    ret,    \* what the call returned: <<>> before it, <<[err, row]>> after
    cli     \* a run of the command line: its options, its target file and
            \* how far it got

vars == <<wb, ydoc, md, form, cur, err, log, hist, form0, prev, tbody, args, ret, cli>>

(***************************************************************************)
(* Bounds of the model.                                                    *)
(***************************************************************************)
MaxRows == 2

MaxOps == 5

MaxEnsure == 2

MaxLen == 3
MaxBlocks == 4

(***************************************************************************)
(* Strings.                                                                *)
(***************************************************************************)
S(t) == <<t>>

HASH == S("#")

TYPE == S("type")

NAME == S("name")

LIST_NAME == S("list_name")

BEGIN_GROUP == S("begin_group")

UNNAMED == S("(unnamed)")

YXF_PREFIX == S("Converted by yxf,")

StartsWith(s, p) == Len(s) >= Len(p) /\ SubSeq(s, 1, Len(p)) = p

(***************************************************************************)
(* Python dicts, insertion ordered.                                        *)
(***************************************************************************)
DKeys(d) == [i \in 1..Len(d) |-> d[i][1]]

DHas(d, k) == \E i \in 1..Len(d) : d[i][1] = k

DIdx(d, k) == CHOOSE i \in 1..Len(d) : d[i][1] = k

DGet(d, k) == d[DIdx(d, k)][2]

DGetOr(d, k, dflt) == IF DHas(d, k) THEN DGet(d, k) ELSE dflt

DPut(d, k, v) ==
    IF DHas(d, k) THEN [d EXCEPT ![DIdx(d, k)] = <<k, v>>] ELSE Append(d, <<k, v>>)

DDel(d, k) == SelectSeq(d, LAMBDA e : e[1] # k)

SeqHas(s, x) == \E i \in 1..Len(s) : s[i] = x

Insert0(s, x) == <<x>> \o s

(***************************************************************************)
(* Errors.  Every exception the code raises is a record; NoErr is "the     *)
(* call returned".  The code raises ValueError for each of its own errors; *)
(* type names the message: InvalidKeyError is 'Invalid key ...',           *)
(* CommentColumnPositionError 'The comment column must come first ...',    *)
(* MissingSurveySheetError 'An XLSForm must have a "survey" sheet.',       *)
(* MissingYxfMetadataError and MissingSurveyEntryError 'YAML file must     *)
(* have a ... entry.', MissingHeaderError 'Cell with no column header',    *)
(* InvalidSheetNameError and NoSheetNameError the two of the Markdown      *)
(* reader.  The other types are the exceptions of Python and the libraries.*)
(***************************************************************************)
Err(type, sheet, key, row) ==
    [type |-> type, sheet |-> sheet, key |-> key, row |-> row, line |-> 0]

\* An error that carries "source:line".
ErrAt(type, key, line) ==
    [type |-> type, sheet |-> "", key |-> key, row |-> <<>>, line |-> line]

NoErr == Err("none", "", <<>>, <<>>)

(***************************************************************************)
(* Workbook cells.                                                         *)
(***************************************************************************)
NoneCell == [t |-> "none", s |-> <<>>]

StrCell(s) == [t |-> "str", s |-> s]

NumCell(s) == [t |-> "num", s |-> s]

\* Python truthiness of a cell value: None, 0 and "" are false.
Truthy(c) ==
    CASE c.t = "none" -> FALSE
      [] c.t = "num" -> c.s # S("0")
      [] OTHER -> c.s # <<>>

(***************************************************************************)
(* xlsform.py: reading helpers.                                            *)
(***************************************************************************)
\* None as an element of a headers or values list (never a real string: no
\* string holds the empty token).
None == <<"None", "">>

RECURSIVE truncate_row(_)
truncate_row(row) ==
    IF row # <<>> /\ row[Len(row)].t = "none"
    THEN truncate_row(SubSeq(row, 1, Len(row) - 1))
    ELSE row

stringify_value(c) == IF Truthy(c) THEN c.s ELSE <<>>

headers(grid) ==
    IF Len(grid) = 0 THEN <<>>
    ELSE LET r == truncate_row(grid[1]) IN [i \in 1..Len(r) |-> stringify_value(r[i])]

\* next(rows_iter) on a sheet without any row raises StopIteration.
content_rows(grid) == IF Len(grid) = 0 THEN <<>> ELSE Tail(grid)

(***************************************************************************)
(* excel.py: row_to_dict.  The result is [err, row].                       *)
(***************************************************************************)
Min(a, b) == IF a < b THEN a ELSE b

\* row_to_dict that skips None and keeps the empty string.
RECURSIVE RowToDictKeepEmpty(_, _, _, _)
RowToDictKeepEmpty(hs, vs, i, acc) ==
    IF i > Min(Len(hs), Len(vs)) THEN [err |-> NoErr, row |-> acc]
    ELSE IF vs[i] = None THEN RowToDictKeepEmpty(hs, vs, i + 1, acc)
    ELSE IF hs[i] = None
         THEN [err |-> Err("MissingHeaderError", "", <<>>, vs[i]), row |-> acc]
    ELSE RowToDictKeepEmpty(hs, vs, i + 1, DPut(acc, hs[i], vs[i]))

RECURSIVE RowToDictFrom(_, _, _, _)
RowToDictFrom(hs, vs, i, acc) ==
    IF i > Min(Len(hs), Len(vs)) THEN [err |-> NoErr, row |-> acc]
    ELSE IF vs[i] = None \/ vs[i] = <<>> THEN RowToDictFrom(hs, vs, i + 1, acc)
    ELSE IF hs[i] = None
         THEN [err |-> Err("MissingHeaderError", "", <<>>, vs[i]), row |-> acc]
    ELSE RowToDictFrom(hs, vs, i + 1, DPut(acc, hs[i], vs[i]))

row_to_dict(hs, vs) == RowToDictFrom(hs, vs, 1, <<>>)

(***************************************************************************)
(* excel.py: _convert_sheet.  The result is [err, rows].                   *)
(***************************************************************************)
RECURSIVE ConvertRows(_, _, _, _)
ConvertRows(hs, rows, i, acc) ==
    IF i > Len(rows) THEN [err |-> NoErr, rows |-> acc]
    ELSE LET t == truncate_row(rows[i])
             values == [j \in 1..Len(t) |-> stringify_value(t[j])]
             r == row_to_dict(hs, values)
         IN  IF r.err # NoErr THEN [err |-> r.err, rows |-> acc]
             ELSE ConvertRows(hs, rows, i + 1,
                              IF r.row # <<>> THEN Append(acc, r.row) ELSE acc)

convert_sheet(grid) ==
    IF Len(grid) = 0 THEN [err |-> Err("StopIteration", "", <<>>, <<>>), rows |-> <<>>]
    ELSE ConvertRows(headers(grid), content_rows(grid), 1, <<>>)

(***************************************************************************)
(* excel.py: read_xlsform.  A workbook is a dict sheet name -> grid; a     *)
(* Form is [yxf, sheets, headers]: sheets a dict name -> list of rows,     *)
(* headers the dict form["yxf"]["headers"], yxf whether the key "yxf" is   *)
(* there.  The result is [err, form].                                      *)
(***************************************************************************)
SheetNames == <<"survey", "choices", "settings">>

EmptyForm == [yxf |-> FALSE, sheets |-> <<>>, headers |-> <<>>]

\* The position test made on the second header instead of the first.
CommentColumnMisplacedOffByOne(hs) == Len(hs) >= 2 /\ hs[2] # HASH /\ SeqHas(hs, HASH)

CommentColumnMisplaced(hs) == hs # <<>> /\ hs[1] # HASH /\ SeqHas(hs, HASH)

RECURSIVE ReadSheets(_, _, _)
ReadSheets(book, i, acc) ==
    IF i > Len(SheetNames) THEN [err |-> NoErr, form |-> acc]
    ELSE LET n == SheetNames[i] IN
         IF ~DHas(book, n) THEN ReadSheets(book, i + 1, acc)
         ELSE LET c == convert_sheet(DGet(book, n))
                  hs == headers(DGet(book, n))
                  f == [acc EXCEPT !.sheets = DPut(@, n, c.rows),
                                   !.headers = DPut(@, n, hs)]
              IN  IF c.err # NoErr THEN [err |-> [c.err EXCEPT !.sheet = n], form |-> acc]
                  ELSE IF CommentColumnMisplaced(hs)
                       THEN [err |-> Err("CommentColumnPositionError", n, <<>>, <<>>),
                             form |-> f]
                  ELSE ReadSheets(book, i + 1, f)

\* read_xlsform without the test for the survey sheet.
read_xlsform_unchecked(book) ==
    LET r == ReadSheets(book, 1, EmptyForm) IN
    IF r.err # NoErr THEN r ELSE [err |-> NoErr, form |-> [r.form EXCEPT !.yxf = TRUE]]

read_xlsform(book) ==
    LET r == ReadSheets(book, 1, EmptyForm) IN
    IF r.err # NoErr THEN r
    ELSE IF ~DHas(r.form.sheets, "survey")
         THEN [err |-> Err("MissingSurveySheetError", "survey", <<>>, <<>>), form |-> r.form]
    ELSE [err |-> NoErr, form |-> [r.form EXCEPT !.yxf = TRUE]]

(***************************************************************************)
(* excel.py: _convert_to_sheet.  The result is [err, grid]: the cells of   *)
(* the sheet, row 1 first; a cell never written is empty.                  *)
(***************************************************************************)
\* openpyxl writes the value "" as an empty cell.
WriteCell(v) == IF v = <<>> THEN NoneCell ELSE StrCell(v)

BlankRow(keys) == [j \in 1..Len(keys) |-> NoneCell]

HeaderRow(keys) == [j \in 1..Len(keys) |-> WriteCell(keys[j])]

DataRow(keys, row) ==
    [j \in 1..Len(keys) |-> IF DHas(row, keys[j]) THEN WriteCell(DGet(row, keys[j]))
                            ELSE NoneCell]

\* The last key outside the header list instead of the first.
LastInvalidKey(row, keys) ==
    LET ks == DKeys(row)
        i == CHOOSE i \in 1..Len(ks) :
                 /\ ~SeqHas(keys, ks[i])
                 /\ \A j \in (i + 1)..Len(ks) : SeqHas(keys, ks[j])
    IN  ks[i]

FirstInvalidKey(row, keys) ==
    LET ks == DKeys(row)
        i == CHOOSE i \in 1..Len(ks) :
                 /\ ~SeqHas(keys, ks[i])
                 /\ \A j \in 1..(i - 1) : SeqHas(keys, ks[j])
    IN  ks[i]

HasInvalidKey(row, keys) == \E i \in 1..Len(row) : ~SeqHas(keys, row[i][1])

\* No blank row before a begin_group row.
GroupGapNone(row, keys) == <<>>

\* One blank row before a begin_group row.
GroupGap(row, keys) ==
    IF DGetOr(row, TYPE, None) = BEGIN_GROUP THEN <<BlankRow(keys)>> ELSE <<>>

\* One blank row where list_name changes.
ListGap(row, keys, previous_list_name) ==
    IF DGetOr(row, LIST_NAME, None) # previous_list_name THEN <<BlankRow(keys)>> ELSE <<>>

RECURSIVE LayoutRows(_, _, _, _, _, _)
LayoutRows(title, rows, keys, i, previous_list_name, grid) ==
    IF i > Len(rows) THEN [err |-> NoErr, grid |-> grid]
    ELSE LET row == rows[i] IN
         IF HasInvalidKey(row, keys)
         THEN [err |-> Err("InvalidKeyError", title, FirstInvalidKey(row, keys),
                           DGetOr(row, NAME, UNNAMED)),
               grid |-> grid]
         ELSE LayoutRows(title, rows, keys, i + 1, DGetOr(row, LIST_NAME, None),
                         grid \o GroupGap(row, keys)
                              \o ListGap(row, keys, previous_list_name)
                              \o <<DataRow(keys, row)>>)

convert_to_sheet(title, rows, keys) ==
    LayoutRows(title, rows, keys, 1,
               IF rows # <<>> THEN DGetOr(rows[1], LIST_NAME, None) ELSE None,
               <<HeaderRow(keys)>>)

(***************************************************************************)
(* xlsform.py: make_pretty.  Styling is not modelled; what is modelled is  *)
(* that it indexes the header list with every column of the sheet, and a   *)
(* sheet has at least column 1 and row 2 once it has been styled.          *)
(***************************************************************************)
Max(a, b) == IF a > b THEN a ELSE b

make_pretty_fails(grid) == Len(headers(grid)) < Max(1, Len(grid[1]))

(***************************************************************************)
(* excel.py: write_xlsform.  The result is [err, book]; book is what       *)
(* wb.save puts into the file object, and is only there without an error.  *)
(***************************************************************************)
RECURSIVE WriteSheets(_, _, _)
WriteSheets(f, i, book) ==
    IF i > Len(f.sheets) THEN [err |-> NoErr, book |-> book]
    ELSE LET n == f.sheets[i][1] IN
         IF ~DHas(f.headers, n)
         THEN [err |-> Err("KeyError", n, <<>>, <<>>), book |-> book]
         ELSE LET c == convert_to_sheet(n, f.sheets[i][2], DGet(f.headers, n)) IN
              IF c.err # NoErr THEN [err |-> c.err, book |-> book]
              ELSE WriteSheets(f, i + 1, Append(book, <<n, c.grid>>))

write_xlsform(f) ==
    LET w == WriteSheets(f, 1, <<>>) IN
    IF w.err # NoErr THEN w
    ELSE IF \E i \in 1..Len(w.book) : make_pretty_fails(w.book[i][2])
         THEN [err |-> Err("IndexError", "", <<>>, <<>>), book |-> w.book]
    ELSE w

(***************************************************************************)
(* yaml.py.  A YAML text is [kind, data]: kind "malformed" for text that   *)
(* strictyaml rejects, "text" for a document whose parse is data, a        *)
(* mapping with the shape of a Form.  strictyaml builds no document from   *)
(* an empty list or an empty dict.                                         *)
(***************************************************************************)
NoDoc == [kind |-> "none", data |-> EmptyForm]

YamlText(f) == [kind |-> "text", data |-> f]

HasEmptyCollection(f) ==
    \/ f.headers = <<>>
    \/ \E i \in 1..Len(f.headers) : f.headers[i][2] = <<>>
    \/ \E i \in 1..Len(f.sheets) :
          \/ f.sheets[i][2] = <<>>
          \/ \E j \in 1..Len(f.sheets[i][2]) : f.sheets[i][2][j] = <<>>

write_yaml(f) ==
    IF HasEmptyCollection(f)
    THEN [err |-> Err("CannotBuildDocumentsFromEmptyDictOrList", "", <<>>, <<>>),
          doc |-> NoDoc]
    ELSE [err |-> NoErr, doc |-> YamlText(f)]

\* read_yaml with the test for survey before the test for yxf.
read_yaml_survey_first(doc) ==
    IF doc.kind = "malformed"
    THEN [err |-> Err("YAMLError", "", <<>>, <<>>), form |-> EmptyForm]
    ELSE IF ~DHas(doc.data.sheets, "survey")
    THEN [err |-> Err("MissingSurveyEntryError", "survey", <<>>, <<>>), form |-> EmptyForm]
    ELSE IF ~doc.data.yxf
    THEN [err |-> Err("MissingYxfMetadataError", "yxf", <<>>, <<>>), form |-> EmptyForm]
    ELSE [err |-> NoErr, form |-> doc.data]

read_yaml(doc) ==
    IF doc.kind = "malformed"
    THEN [err |-> Err("YAMLError", "", <<>>, <<>>), form |-> EmptyForm]
    ELSE IF ~doc.data.yxf
    THEN [err |-> Err("MissingYxfMetadataError", "yxf", <<>>, <<>>), form |-> EmptyForm]
    ELSE IF ~DHas(doc.data.sheets, "survey")
    THEN [err |-> Err("MissingSurveyEntryError", "survey", <<>>, <<>>), form |-> EmptyForm]
    ELSE [err |-> NoErr, form |-> doc.data]

(***************************************************************************)
(* excel.py: ensure_yxf_comment.  The result is [err, form]; the form is   *)
(* changed in place, and an exception leaves it as it was.                 *)
(***************************************************************************)
DesiredComment(name, file_format) ==
    YXF_PREFIX \o <<" from ", name, ". Edit the ", file_format,
                    " file instead of the Excel file.">>

CommentRow(c) == <<<<HASH, c>>>>

SetSheet(f, n, rows) == [f EXCEPT !.sheets = DPut(@, n, rows)]

SetHeaders(f, n, hs) == [f EXCEPT !.headers = DPut(@, n, hs)]

\* The prefix test with a misspelt prefix.
NeedsNewCommentRowMisspelt(first_line) ==
    ~DHas(first_line, HASH) \/ ~StartsWith(DGet(first_line, HASH), S("Converted by yxf:"))

\* A new row whatever the first row holds.
NeedsNewCommentRowAlways(first_line) == TRUE

NeedsNewCommentRow(first_line) ==
    ~DHas(first_line, HASH) \/ ~StartsWith(DGet(first_line, HASH), YXF_PREFIX)

ensure_yxf_comment(f, name, file_format) ==
    IF ~DHas(f.sheets, "survey")
    THEN [err |-> Err("KeyError", "survey", <<>>, <<>>), form |-> f]
    ELSE IF DGet(f.sheets, "survey") = <<>>
    THEN [err |-> Err("IndexError", "survey", <<>>, <<>>), form |-> f]
    ELSE
    LET survey == DGet(f.sheets, "survey")
        desired == DesiredComment(name, file_format)
        rows == IF NeedsNewCommentRow(survey[1])
                THEN Insert0(survey, CommentRow(desired))
                ELSE [survey EXCEPT ![1] = DPut(@, HASH, desired)]
        f1 == SetSheet(f, "survey", rows)
    IN  IF ~DHas(f.headers, "survey")
        THEN [err |-> Err("KeyError", "survey", <<>>, <<>>), form |-> f1]
        ELSE LET hs == DGet(f.headers, "survey") IN
             [err |-> NoErr,
              form |-> IF SeqHas(hs, HASH) THEN f1
                       ELSE SetHeaders(f1, "survey", Insert0(hs, HASH))]

(***************************************************************************)
(* __main__.py: _ensure_yxf_comment, the variant of the in-memory API.     *)
(***************************************************************************)
main_ensure_yxf_comment(f, name, file_format) ==
    IF ~DHas(f.sheets, "survey")
    THEN [err |-> Err("KeyError", "survey", <<>>, <<>>), form |-> f]
    ELSE IF DGet(f.sheets, "survey") = <<>> THEN [err |-> NoErr, form |-> f]
    ELSE IF ~DHas(f.headers, "survey")
    THEN [err |-> Err("KeyError", "survey", <<>>, <<>>), form |-> f]
    ELSE
    LET survey == DGet(f.sheets, "survey")
        hs == DGet(f.headers, "survey")
        desired == DesiredComment(name, file_format)
    IN  IF SeqHas(hs, HASH)
        THEN [err |-> NoErr,
              form |-> SetSheet(f, "survey",
                          IF NeedsNewCommentRow(survey[1])
                          THEN Insert0(survey, CommentRow(desired))
                          ELSE [survey EXCEPT ![1] = DPut(@, HASH, desired)])]
        ELSE [err |-> NoErr,
              form |-> SetSheet(SetHeaders(f, "survey", Insert0(hs, HASH)), "survey",
                                Insert0(survey, CommentRow(desired)))]

(***************************************************************************)
(* markdown.py: write_markdown.  A Markdown text is the list of its block  *)
(* nodes as markdown-it parses them: [tag, content, head, body] with tag   *)
(* "h2", "p" or "table"; head and body hold the inline content of the      *)
(* table's cells.  The result is [err, blocks, form, log]: the form is     *)
(* changed in place, log holds the warnings.                               *)
(***************************************************************************)
Heading(c) == [tag |-> "h2", content |-> c, head |-> <<>>, body |-> <<>>]

Para(c) == [tag |-> "p", content |-> c, head |-> <<>>, body |-> <<>>]

Table(head, body) == [tag |-> "table", content |-> <<>>, head |-> head, body |-> body]

RECURSIVE Replace(_, _, _)
Replace(s, t, r) ==
    IF s = <<>> THEN <<>>
    ELSE (IF Head(s) = t THEN r ELSE <<Head(s)>>) \o Replace(Tail(s), t, r)

\* EscapeCell that escapes the pipes before it doubles the backslashes.
EscapeCellPipesFirst(v) ==
    Replace(Replace(Replace(v, "\n", <<" ">>), "|", <<"\\", "|">>), "\\", <<"\\", "\\">>)

EscapeCell(v) ==
    Replace(Replace(Replace(v, "\n", <<" ">>), "\\", <<"\\", "\\">>), "|", <<"\\", "|">>)

EscapeRow(row) == [j \in 1..Len(row) |-> <<row[j][1], EscapeCell(row[j][2])>>]

\* RowWarnings that warns once per row.
RowWarningsOnce(row, i) ==
    LET multi == SelectSeq(row, LAMBDA e : SeqHas(e[2], "\n"))
    IN  IF multi = <<>> THEN <<>> ELSE <<<<i + 1, multi[1][1]>>>>

RowWarnings(row, i) ==
    LET multi == SelectSeq(row, LAMBDA e : SeqHas(e[2], "\n"))
    IN  [j \in 1..Len(multi) |-> <<i + 1, multi[j][1]>>]

RECURSIVE Flatten(_)
Flatten(ss) == IF ss = <<>> THEN <<>> ELSE Head(ss) \o Flatten(Tail(ss))

\* markdown-it's split of a table line: a backslash right before a pipe is
\* dropped, and the cell is stripped of surrounding spaces.
UnescapePipes(s) ==
    LET keep == {i \in 1..Len(s) : ~(s[i] = "\\" /\ i < Len(s) /\ s[i + 1] = "|")}
        RECURSIVE Pick(_)
        Pick(i) == IF i > Len(s) THEN <<>>
                   ELSE (IF i \in keep THEN <<s[i]>> ELSE <<>>) \o Pick(i + 1)
    IN  Pick(1)

RECURSIVE Strip(_)
Strip(s) ==
    IF s # <<>> /\ Head(s) = " " THEN Strip(Tail(s))
    ELSE IF s # <<>> /\ s[Len(s)] = " " THEN Strip(SubSeq(s, 1, Len(s) - 1))
    ELSE s

CellContent(text) == Strip(UnescapePipes(text))

StrLen(s) == Len(s)

ColumnWidth(hs, rows, j) ==
    LET lens == {StrLen(hs[j])} \cup
                {StrLen(DGet(rows[i], hs[j])) : i \in {i \in 1..Len(rows) : DHas(rows[i], hs[j])}}
    IN  CHOOSE w \in lens : \A x \in lens : x <= w

\* The rendered lines parse as a table when there is a column and every
\* separator cell has a dash.
RendersAsTable(hs, rows) == hs # <<>> /\ \A j \in 1..Len(hs) : ColumnWidth(hs, rows, j) > 0

RenderTable(hs, rows) ==
    LET shown == SelectSeq(rows, LAMBDA r : r # <<>>)
    IN  IF RendersAsTable(hs, rows)
        THEN Table([j \in 1..Len(hs) |-> CellContent(hs[j])],
                   [i \in 1..Len(shown) |->
                       [j \in 1..Len(hs) |-> CellContent(DGetOr(shown[i], hs[j], <<>>))]])
        ELSE Para(<<"|", "|">>)

\* CommentParagraphs that renders the first comment only.
CommentParagraphsFirst(rows) ==
    LET with == SelectSeq(rows, LAMBDA r : DHas(r, HASH) /\ DGet(r, HASH) # <<>>)
    IN  IF with = <<>> THEN <<>> ELSE <<Para(DGet(with[1], HASH))>>

CommentParagraphs(rows) ==
    LET with == SelectSeq(rows, LAMBDA r : DHas(r, HASH) /\ DGet(r, HASH) # <<>>)
    IN  [i \in 1..Len(with) |-> Para(DGet(with[i], HASH))]

WriteSheet(f, n) ==
    LET sheet == DGet(f.sheets, n)
        hs == DGet(f.headers, n)
        noComments == [i \in 1..Len(sheet) |-> DDel(sheet[i], HASH)]
        f1 == SetSheet(f, n, noComments)
        front == <<Heading(S(n))>> \o CommentParagraphs(sheet)
        popped == IF hs[1] = HASH THEN Tail(hs) ELSE hs
        f2 == SetHeaders(f1, n, popped)
        known == {hs[j] : j \in 1..Len(hs)} \ (IF hs[1] = HASH THEN {HASH} ELSE {})
        escaped == [i \in 1..Len(sheet) |-> EscapeRow(noComments[i])]
        f3 == SetSheet(f2, n, escaped)
        warnings == Flatten([i \in 1..Len(sheet) |-> RowWarnings(noComments[i], i)])
    IN  IF ~DHas(f.headers, n)
        THEN [err |-> Err("KeyError", n, <<>>, <<>>), blocks |-> <<>>, form |-> f,
              log |-> <<>>]
        ELSE IF hs = <<>>
        THEN [err |-> Err("IndexError", n, <<>>, <<>>), blocks |-> <<>>, form |-> f1,
              log |-> <<>>]
        ELSE IF \E i \in 1..Len(escaped) : \E j \in 1..Len(escaped[i]) :
                    escaped[i][j][1] \notin known
        THEN [err |-> Err("KeyError", n, <<>>, <<>>), blocks |-> <<>>, form |-> f3,
              log |-> warnings]
        ELSE [err |-> NoErr, blocks |-> front \o <<RenderTable(popped, escaped)>>,
              form |-> f3, log |-> warnings]

RECURSIVE WriteSheetsMd(_, _, _, _)
WriteSheetsMd(f, i, blocks, warned) ==
    IF i > Len(SheetNames) THEN [err |-> NoErr, blocks |-> blocks, form |-> f, log |-> warned]
    ELSE IF ~DHas(f.sheets, SheetNames[i]) THEN WriteSheetsMd(f, i + 1, blocks, warned)
    ELSE LET w == WriteSheet(f, SheetNames[i]) IN
         IF w.err # NoErr
         THEN [err |-> w.err, blocks |-> <<>>, form |-> w.form, log |-> warned \o w.log]
         ELSE WriteSheetsMd(w.form, i + 1, blocks \o w.blocks, warned \o w.log)

write_markdown(f) == WriteSheetsMd(f, 1, <<>>, <<>>)

(***************************************************************************)
(* excel.py: validate_sheet_name, and markdown.py: read_markdown.  The     *)
(* scan keeps the list object `result`: form[sheet_name] = result stores a *)
(* reference, so the lists live in a heap (lists) and the form maps a      *)
(* sheet to the index of its list.  The result is [err, form].             *)
(***************************************************************************)
ValidSheetName(c) == \E i \in 1..Len(SheetNames) : c = S(SheetNames[i])

\* validate_sheet_name that accepts every name.
validate_sheet_name_any(c, line) == NoErr

validate_sheet_name(c, line) ==
    IF ValidSheetName(c) THEN NoErr ELSE ErrAt("InvalidSheetNameError", c, line)

IsDirective(c) == c # <<>> /\ c[1] = "%%"

\* re.match(r"%%\s*(.*)"): the rest of the line that follows the white space
\* (\s also matches a line break).
RECURSIVE SkipSpaces(_)
SkipSpaces(s) == IF s # <<>> /\ Head(s) \in {" ", "\n"} THEN SkipSpaces(Tail(s)) ELSE s

RECURSIVE FirstLine(_)
FirstLine(s) ==
    IF s = <<>> \/ Head(s) = "\n" THEN <<>> ELSE <<Head(s)>> \o FirstLine(Tail(s))

DirectiveName(c) == FirstLine(SkipSpaces(Tail(c)))

ScanStart ==
    [err |-> NoErr, sheet_name |-> None, result |-> 1, lists |-> <<<<>>>>,
     sheets |-> <<>>, headers |-> <<>>]

\* TableRows that adds the comment column to the headers only.
TableRowsShifted(st, node) ==
    LET current == st.lists[st.result]
        add_comment_column ==
            node.head[1] # HASH /\ current # <<>> /\ DHas(current[1], HASH)
        hs == IF add_comment_column THEN Insert0(node.head, HASH) ELSE node.head
        dicts == [i \in 1..Len(node.body) |-> row_to_dict(hs, node.body[i])]
        kept == SelectSeq(dicts, LAMBDA d : d.row # <<>>)
    IN  [hs |-> hs,
         bad |-> SelectSeq(dicts, LAMBDA d : d.err # NoErr),
         rows |-> current \o [i \in 1..Len(kept) |-> kept[i].row]]

TableRows(st, node) ==
    LET current == st.lists[st.result]
        add_comment_column ==
            node.head[1] # HASH /\ current # <<>> /\ DHas(current[1], HASH)
        hs == IF add_comment_column THEN Insert0(node.head, HASH) ELSE node.head
        dicts == [i \in 1..Len(node.body) |->
                     row_to_dict(hs, IF add_comment_column
                                     THEN Insert0(node.body[i], <<>>)
                                     ELSE node.body[i])]
        kept == SelectSeq(dicts, LAMBDA d : d.row # <<>>)
    IN  [hs |-> hs,
         bad |-> SelectSeq(dicts, LAMBDA d : d.err # NoErr),
         rows |-> current \o [i \in 1..Len(kept) |-> kept[i].row]]

ScanNode(st, node, line) ==
    CASE node.tag \notin {"h2", "p", "table"} -> st
      [] node.tag = "h2" ->
           [st EXCEPT !.sheet_name = node.content,
                      !.err = validate_sheet_name(node.content, line),
                      !.lists = Append(@, <<>>),
                      !.result = Len(st.lists) + 1]
      [] node.tag = "p" /\ IsDirective(node.content) ->
           [st EXCEPT !.sheet_name = DirectiveName(node.content),
                      !.err = validate_sheet_name(DirectiveName(node.content), line)]
      [] node.tag = "p" /\ ~IsDirective(node.content) ->
           [st EXCEPT !.lists[st.result] = Append(@, CommentRow(node.content))]
      [] node.tag = "table" /\ (st.sheet_name = None \/ st.sheet_name = <<>>) ->
           [st EXCEPT !.err = ErrAt("NoSheetNameError", <<>>, line)]
      [] node.tag = "table" /\ node.body = <<>> /\ ~tbody ->
           \* thead, tbody = node.children
           [st EXCEPT !.err = ErrAt("ValueError", <<>>, line)]
      [] OTHER ->
           LET t == TableRows(st, node)
               n == st.sheet_name[1]
           IN  IF t.bad # <<>> THEN [st EXCEPT !.err = t.bad[1].err]
               ELSE [st EXCEPT !.lists[st.result] = t.rows,
                               !.sheets = DPut(@, n, st.result),
                               !.headers = DPut(@, n, t.hs)]

RECURSIVE Scan(_, _, _)
Scan(st, ast, i) ==
    IF i > Len(ast) \/ st.err # NoErr THEN st
    ELSE Scan(ScanNode(st, ast[i], i - 1), ast, i + 1)

read_markdown(ast) ==
    LET st == Scan(ScanStart, ast, 1) IN
    IF st.err # NoErr THEN [err |-> st.err, form |-> EmptyForm]
    ELSE [err |-> NoErr,
          form |-> [yxf |-> TRUE,
                    sheets |-> [i \in 1..Len(st.sheets) |->
                                   <<st.sheets[i][1], st.lists[st.sheets[i][2]]>>],
                    headers |-> st.headers]]

(***************************************************************************)
(* The input files.                                                        *)
(***************************************************************************)
SeqsUpTo(X, n) == UNION {[1..k -> X] : k \in 0..n}

NonEmptySeqsUpTo(X, n) == UNION {[1..k -> X] : k \in 1..n}

Label == "form.xlsx"

Provenance == DesiredComment(Label, "YAML")

GridHeaderRows ==
    { <<StrCell(HASH), StrCell(TYPE)>>,
      <<StrCell(TYPE), StrCell(LIST_NAME)>>,
      <<StrCell(TYPE), StrCell(HASH)>>,
      <<NoneCell, NoneCell>> }

GridDataRows ==
    { <<StrCell(Provenance), NoneCell>>,
      <<StrCell(BEGIN_GROUP), StrCell(S("x"))>>,
      <<StrCell(S("note")), StrCell(<<"a", "\\", "|", "b">>)>>,
      <<NumCell(S("0")), NoneCell, StrCell(S("z"))>>,
      <<NoneCell, StrCell(<<"y", "\n", "y">>)>> }

SurveyGrids ==
    {<<h>> \o rows : h \in GridHeaderRows, rows \in SeqsUpTo(GridDataRows, MaxRows)}

ChoicesGrid ==
    << <<StrCell(LIST_NAME), StrCell(NAME)>>,
       <<StrCell(S("l1")), StrCell(S("n1"))>>,
       <<StrCell(S("l2")), StrCell(S("n2"))>> >>

MisplacedGrid == << <<StrCell(NAME), StrCell(HASH)>>, <<StrCell(S("n1")), NoneCell>> >>

HeaderOnlyGrid == << <<StrCell(LIST_NAME), StrCell(NAME)>> >>

\* The sheets a workbook holds besides survey.
OtherSheets ==
    { <<>>,
      << <<"choices", ChoicesGrid>> >>,
      << <<"choices", MisplacedGrid>> >>,
      << <<"choices", HeaderOnlyGrid>>, <<"settings", MisplacedGrid>> >>,
      << <<"Sheet1", ChoicesGrid>>, <<"settings", HeaderOnlyGrid>> >> }

InputWorkbooks ==
    {<<<<"survey", g>>>> \o o : g \in SurveyGrids, o \in OtherSheets}
        \cup {o \in OtherSheets : o # <<>>}

SurveyOnlyWorkbooks == {<<<<"survey", g>>>> : g \in SurveyGrids}

YamlRows ==
    { <<<<HASH, Provenance>>>>,
      <<<<TYPE, BEGIN_GROUP>>, <<NAME, S("q1")>>>>,
      <<<<NAME, S("q2")>>, <<TYPE, S("text")>>>>,
      <<<<S("bogus"), S("v")>>, <<TYPE, S("text")>>, <<S("extra"), S("w")>>>>,
      <<<<HASH, S("note")>>, <<TYPE, S("text")>>>> }

YamlHeaders ==
    { <<TYPE, NAME>>, <<HASH, TYPE, NAME>>, <<TYPE, HASH, NAME>> }

\* The top-level entries of a document besides survey and yxf: none, a
\* choices list, a list under another name.
YamlChoices ==
    { <<>>,
      << <<"choices", << <<<<LIST_NAME, S("l1")>>, <<S("bogus2"), S("v")>>>> >>,
         <<LIST_NAME>> >> >>,
      << <<"extra", << <<<<NAME, S("n1")>>>> >>, <<NAME>> >> >> }

\* A document with yxf and survey, a list of rows per sheet and a list of
\* headers per sheet; strictyaml has no text for an empty list.
YamlForms ==
    { [yxf |-> TRUE,
       sheets |-> <<<<"survey", rows>>>> \o [i \in 1..Len(c) |-> <<c[i][1], c[i][2]>>],
       headers |-> <<<<"survey", hs>>>> \o [i \in 1..Len(c) |-> <<c[i][1], c[i][3]>>]] :
      rows \in NonEmptySeqsUpTo(YamlRows, MaxRows), hs \in YamlHeaders, c \in YamlChoices }

YamlIncomplete ==
    { [yxf |-> FALSE, sheets |-> <<<<"survey", <<<<<<TYPE, S("text")>>>>>>>>>>, headers |-> <<>>],
      [yxf |-> FALSE, sheets |-> <<<<"choices", <<<<<<NAME, S("n1")>>>>>>>>>>, headers |-> <<>>],
      [yxf |-> TRUE, sheets |-> <<<<"choices", <<<<<<NAME, S("n1")>>>>>>>>>>,
       headers |-> <<<<"choices", <<NAME>>>>>>] }

InputYamlDocs ==
    {YamlText(f) : f \in YamlForms \cup YamlIncomplete}
        \cup {[kind |-> "malformed", data |-> EmptyForm]}

EnsureArgs == {<<Label, "YAML">>, <<"form.md", "Markdown">>}

\* The block nodes of a Markdown document: level-2 headings with a sheet
\* name and with another name, a level-1 heading, directives with a sheet
\* name and with another name, a comment, a table with data rows (one of
\* them empty), a table with a comment column, a table whose comment column
\* is the second, a table without data rows.
MdBlocks ==
    { Heading(S("survey")),
      Heading(S("Survey")),
      [tag |-> "h1", content |-> S("survey"), head |-> <<>>, body |-> <<>>],
      Para(<<"%%", " ", "choices">>),
      Para(<<"%%", "bogus">>),
      Para(S("note")),
      Table(<<TYPE, NAME>>, << <<S("text"), S("q1")>>, <<<<>>, <<>>>>, <<S("text"), <<>>>> >>),
      Table(<<HASH, TYPE>>, << <<S("c"), S("text")>> >>),
      Table(<<NAME, HASH>>, << <<S("q2"), S("d")>> >>),
      Table(<<TYPE>>, <<>>) }

InputMarkdown == SeqsUpTo(MdBlocks, MaxBlocks)

\* Workbooks with one survey sheet whose first data row holds any text of
\* up to MaxLen characters over a letter, the backslash, the pipe and the
\* line break.
CellTexts == SeqsUpTo({"a", "\\", "|", "\n"}, MaxLen)

TextCell(v) == IF v = <<>> THEN NoneCell ELSE StrCell(v)

CellWorkbooks ==
    { << <<"survey",
           << <<StrCell(TYPE), StrCell(NAME)>>, <<TextCell(v), w>> >> \o more>> >> :
      v \in CellTexts,
      w \in {NoneCell, StrCell(S("b")), StrCell(<<"y", "\n", "\n", "y">>)},
      more \in {<<>>, << <<NoneCell, StrCell(<<"\n">>)>> >>} }

(***************************************************************************)
(* The state machine.  A conversion reads a file into a Form, may          *)
(* reconcile its comment, and writes the Form to a file; the next          *)
(* conversion reads that file.  An exception ends it.                      *)
(***************************************************************************)
NoArgs == [headers |-> <<>>, values |-> <<>>]

\* No command line: the library functions are called directly.
NoCli == [pc |-> "none", dir |-> "none", force |-> FALSE, existed |-> FALSE, target |-> "absent"]

Op(op, name, file_format) == [op |-> op, name |-> name, fmt |-> file_format]

StartWith(docs) ==
    /\ md \in docs
    /\ form = EmptyForm
    /\ err = NoErr
    /\ log = <<>>
    /\ hist = <<>>
    /\ form0 = EmptyForm
    /\ prev = EmptyForm
    /\ tbody \in BOOLEAN
    /\ args = NoArgs
    /\ ret = <<>>
    /\ cli = NoCli

Start == StartWith({<<>>})

Init ==
    /\ wb \in InputWorkbooks
    /\ ydoc = NoDoc
    /\ cur = "xlsx"
    /\ Start

InitAny ==
    /\ \/ wb \in SurveyOnlyWorkbooks /\ ydoc = NoDoc /\ cur = "xlsx"
       \/ wb = <<>> /\ ydoc \in InputYamlDocs /\ cur = "yaml"
    /\ Start

Running == err = NoErr /\ Len(hist) < MaxOps

\* What a reader leaves: the Form it returned, or the exception.
Read(r, op) ==
    /\ err' = r.err
    /\ form' = IF r.err = NoErr THEN r.form ELSE form
    /\ cur' = IF r.err = NoErr THEN "form" ELSE cur
    /\ form0' = IF hist = <<>> /\ r.err = NoErr THEN r.form ELSE form0
    /\ prev' = form
    /\ hist' = Append(hist, Op(op, "", ""))
    /\ log' = log

ReadXlsform ==
    /\ Running /\ cur = "xlsx"
    /\ Read(read_xlsform(wb), "read_xlsform")
    /\ UNCHANGED <<wb, ydoc, md, tbody, args, ret, cli>>

ReadYaml ==
    /\ Running /\ cur = "yaml"
    /\ Read(read_yaml(ydoc), "read_yaml")
    /\ UNCHANGED <<wb, ydoc, md, tbody, args, ret, cli>>

ReadMarkdown ==
    /\ Running /\ cur = "md"
    /\ Read(read_markdown(md), "read_markdown")
    /\ UNCHANGED <<wb, ydoc, md, tbody, args, ret, cli>>

WriteXlsform ==
    /\ Running /\ cur = "form"
    /\ LET w == write_xlsform(form) IN
       /\ err' = w.err
       /\ wb' = IF w.err = NoErr THEN w.book ELSE wb
       /\ cur' = IF w.err = NoErr THEN "xlsx" ELSE cur
    /\ prev' = form
    /\ hist' = Append(hist, Op("write_xlsform", "", ""))
    /\ UNCHANGED <<ydoc, md, form, form0, log, tbody, args, ret, cli>>

WriteYaml ==
    /\ Running /\ cur = "form"
    /\ LET w == write_yaml(form) IN
       /\ err' = w.err
       /\ ydoc' = IF w.err = NoErr THEN w.doc ELSE ydoc
       /\ cur' = IF w.err = NoErr THEN "yaml" ELSE cur
    /\ prev' = form
    /\ hist' = Append(hist, Op("write_yaml", "", ""))
    /\ UNCHANGED <<wb, md, form, form0, log, tbody, args, ret, cli>>

WriteMarkdown ==
    /\ Running /\ cur = "form"
    /\ LET w == write_markdown(form) IN
       /\ err' = w.err
       /\ md' = IF w.err = NoErr THEN w.blocks ELSE md
       /\ cur' = IF w.err = NoErr THEN "md" ELSE cur
       /\ form' = w.form
       /\ log' = w.log
    /\ prev' = form
    /\ hist' = Append(hist, Op("write_markdown", "", ""))
    /\ UNCHANGED <<wb, ydoc, form0, tbody, args, ret, cli>>

IsEnsure(o) == o.op \in {"ensure_yxf_comment", "_ensure_yxf_comment"}

EnsureCalls == Len(SelectSeq(hist, IsEnsure))

Ensure(r, op, a) ==
    /\ err' = r.err
    /\ form' = r.form
    /\ prev' = form
    /\ hist' = Append(hist, Op(op, a[1], a[2]))
    /\ UNCHANGED <<wb, ydoc, md, cur, form0, log, tbody, args, ret, cli>>

EnsureYxfComment ==
    /\ Running /\ cur = "form" /\ EnsureCalls < MaxEnsure
    /\ \E a \in EnsureArgs :
          Ensure(ensure_yxf_comment(form, a[1], a[2]), "ensure_yxf_comment", a)

MainEnsureYxfComment ==
    /\ Running /\ cur = "form" /\ EnsureCalls < MaxEnsure
    /\ \E a \in EnsureArgs :
          Ensure(main_ensure_yxf_comment(form, a[1], a[2]), "_ensure_yxf_comment", a)

\* Conversions that start from a workbook.
Next ==
    \/ ReadXlsform
    \/ WriteYaml
    \/ ReadYaml
    \/ WriteMarkdown
    \/ ReadMarkdown
    \/ WriteXlsform

Spec == Init /\ [][Next]_vars

\* A reader, write_xlsform, and read_xlsform of what it wrote.
NextWrite ==
    \/ ReadXlsform
    \/ ReadYaml
    \/ WriteXlsform

SpecWrite == InitAny /\ [][NextWrite]_vars

\* A reader followed by comment reconciliations.
NextComment ==
    \/ ReadXlsform
    \/ ReadYaml
    \/ EnsureYxfComment
    \/ MainEnsureYxfComment

SpecComment == InitAny /\ [][NextComment]_vars

\* markdown_to_xlsform: a Markdown file is read and the Form is written.
InitMd ==
    /\ wb = <<>>
    /\ ydoc = NoDoc
    /\ cur = "md"
    /\ StartWith(InputMarkdown)

NextMd ==
    \/ ReadMarkdown
    \/ WriteXlsform

SpecMd == InitMd /\ [][NextMd]_vars

\* xlsform_to_markdown on workbooks with any cell text, and back.
InitCell ==
    /\ wb \in CellWorkbooks
    /\ ydoc = NoDoc
    /\ cur = "xlsx"
    /\ Start

NextCell ==
    \/ ReadXlsform
    \/ WriteMarkdown
    \/ ReadMarkdown

SpecCell == InitCell /\ [][NextCell]_vars

(***************************************************************************)
(* cli.py: main.  cli.dir is the conversion the suffixes select ("other":  *)
(* an unrecognized suffix), cli.force the --force flag, cli.existed        *)
(* whether the output path existed when main started, cli.target the       *)
(* output file: "absent", "old" (the file that was there), "empty" (opened *)
(* for writing, nothing written) or "new" (the conversion's output, whose  *)
(* content is wb, ydoc or md).  cli.pc is main's position.                 *)
(***************************************************************************)
Directions == {"xlsx-yaml", "xlsx-md", "yaml-xlsx", "md-xlsx", "other"}

\* _check_existing_output that ignores --force.
check_existing_output_strict(exists, force) ==
    IF exists THEN Err("AlreadyExistsError", "", <<>>, <<>>) ELSE NoErr

check_existing_output(exists, force) ==
    IF exists /\ ~force THEN Err("AlreadyExistsError", "", <<>>, <<>>) ELSE NoErr

InputName(dir) ==
    CASE dir \in {"xlsx-yaml", "xlsx-md"} -> "form.xlsx"
      [] dir = "yaml-xlsx" -> "form.yaml"
      [] OTHER -> "form.md"

FileFormat(dir) == IF dir \in {"xlsx-md", "md-xlsx"} THEN "Markdown" ELSE "YAML"

CliMarkdown == {d \in InputMarkdown : Len(d) < MaxBlocks}

InitCli ==
    /\ \E dir \in Directions, force \in BOOLEAN, existed \in BOOLEAN :
          /\ cli = [pc |-> "main", dir |-> dir, force |-> force, existed |-> existed,
                    target |-> IF existed THEN "old" ELSE "absent"]
          /\ wb \in IF dir \in {"xlsx-yaml", "xlsx-md"} THEN SurveyOnlyWorkbooks ELSE {<<>>}
          /\ ydoc \in IF dir = "yaml-xlsx" THEN InputYamlDocs ELSE {NoDoc}
          /\ md \in IF dir = "md-xlsx" THEN CliMarkdown ELSE {<<>>}
          /\ cur = CASE dir \in {"xlsx-yaml", "xlsx-md"} -> "xlsx"
                      [] dir = "yaml-xlsx" -> "yaml"
                      [] dir = "md-xlsx" -> "md"
                      [] OTHER -> "none"
    /\ form = EmptyForm
    /\ err = NoErr
    /\ log = <<>>
    /\ hist = <<>>
    /\ form0 = EmptyForm
    /\ prev = EmptyForm
    /\ tbody \in BOOLEAN
    /\ args = NoArgs
    /\ ret = <<>>

At(pc) == cli.pc = pc /\ err = NoErr

Goto(pc) == cli' = [cli EXCEPT !.pc = IF err' = NoErr THEN pc ELSE "failed"]

\* main: the suffixes select the conversion, then _check_existing_output.
CliCheckExistingOutput ==
    /\ At("main")
    /\ err' = IF cli.dir = "other" THEN Err("UnrecognizedExtensionError", "", <<>>, <<>>)
              ELSE check_existing_output(cli.target # "absent", cli.force)
    /\ Goto("checked")
    /\ UNCHANGED <<wb, ydoc, md, form, cur, log, hist, form0, prev, tbody, args, ret>>

\* The conversion opens the input and reads it.
CliRead ==
    /\ At("checked")
    /\ CASE cli.dir \in {"xlsx-yaml", "xlsx-md"} -> Read(read_xlsform(wb), "read_xlsform")
         [] cli.dir = "yaml-xlsx" -> Read(read_yaml(ydoc), "read_yaml")
         [] OTHER -> Read(read_markdown(md), "read_markdown")
    /\ Goto("read")
    /\ UNCHANGED <<wb, ydoc, md, tbody, args, ret>>

CliEnsure ==
    /\ At("read")
    /\ LET r == ensure_yxf_comment(form, InputName(cli.dir), FileFormat(cli.dir)) IN
       /\ err' = r.err
       /\ form' = r.form
    /\ prev' = form
    /\ hist' = Append(hist, Op("ensure_yxf_comment", InputName(cli.dir), FileFormat(cli.dir)))
    /\ Goto("ensured")
    /\ UNCHANGED <<wb, ydoc, md, cur, form0, log, tbody, args, ret>>

\* xlsform_to_yaml, xlsform_to_markdown: the text is built, then the target
\* is opened and written.
CliWriteText ==
    /\ At("ensured") /\ cli.dir \in {"xlsx-yaml", "xlsx-md"}
    /\ IF cli.dir = "xlsx-yaml"
       THEN LET w == write_yaml(form) IN
            /\ err' = w.err
            /\ ydoc' = IF w.err = NoErr THEN w.doc ELSE ydoc
            /\ UNCHANGED <<md, form, log>>
       ELSE LET w == write_markdown(form) IN
            /\ err' = w.err
            /\ md' = IF w.err = NoErr THEN w.blocks ELSE md
            /\ form' = w.form
            /\ log' = w.log
            /\ ydoc' = ydoc
    /\ prev' = form
    /\ hist' = Append(hist, Op(IF cli.dir = "xlsx-yaml" THEN "write_yaml" ELSE "write_markdown",
                                "", ""))
    /\ cli' = [cli EXCEPT !.pc = IF err' = NoErr THEN "done" ELSE "failed",
                          !.target = IF err' = NoErr THEN "new" ELSE @]
    /\ UNCHANGED <<wb, cur, form0, tbody, args, ret>>

\* yaml_to_xlsform, markdown_to_xlsform: open(target, "wb").
CliOpenTarget ==
    /\ At("ensured") /\ cli.dir \in {"yaml-xlsx", "md-xlsx"}
    /\ cli' = [cli EXCEPT !.pc = "opened", !.target = "empty"]
    /\ UNCHANGED <<wb, ydoc, md, form, cur, err, log, hist, form0, prev, tbody, args, ret>>

\* write_xlsform(form, f): the workbook is saved at the end.
CliWriteXlsform ==
    /\ At("opened")
    /\ LET w == write_xlsform(form) IN
       /\ err' = w.err
       /\ wb' = IF w.err = NoErr THEN w.book ELSE wb
    /\ prev' = form
    /\ hist' = Append(hist, Op("write_xlsform", "", ""))
    /\ cli' = [cli EXCEPT !.pc = IF err' = NoErr THEN "done" ELSE "failed",
                          !.target = IF err' = NoErr THEN "new" ELSE @]
    /\ UNCHANGED <<ydoc, md, form, cur, form0, log, tbody, args, ret>>

NextCli ==
    \/ CliCheckExistingOutput
    \/ CliRead
    \/ CliEnsure
    \/ CliWriteText
    \/ CliOpenTarget
    \/ CliWriteXlsform

SpecCli == InitCli /\ [][NextCli]_vars

(***************************************************************************)
(* Calls of row_to_dict on lists of headers and values.                    *)
(***************************************************************************)
HeaderValues == {None, S("a"), S("b")}

CellValues == {None, <<>>, S("x"), S("y")}

InitRow ==
    /\ wb = <<>>
    /\ ydoc = NoDoc
    /\ cur = "none"
    /\ md = <<>>
    /\ form = EmptyForm
    /\ err = NoErr
    /\ log = <<>>
    /\ hist = <<>>
    /\ form0 = EmptyForm
    /\ prev = EmptyForm
    /\ tbody = TRUE
    /\ args \in [headers : SeqsUpTo(HeaderValues, MaxLen), values : SeqsUpTo(CellValues, MaxLen)]
    /\ ret = <<>>
    /\ cli = NoCli

RowToDict ==
    /\ ret = <<>>
    /\ ret' = <<row_to_dict(args.headers, args.values)>>
    /\ UNCHANGED <<wb, ydoc, md, form, cur, err, log, hist, form0, prev, tbody, args, cli>>

NextRow == RowToDict

SpecRow == InitRow /\ [][NextRow]_vars

(***************************************************************************)
(* Properties.                                                             *)
(***************************************************************************)
Least(X) == CHOOSE x \in X : \A y \in X : x <= y

Ops == [i \in 1..Len(hist) |-> hist[i].op]

LastCall == hist[Len(hist)]

LastIs(op) == hist # <<>> /\ LastCall.op = op

LastEnsure == hist # <<>> /\ IsEnsure(LastCall)

IsPrefix(s, t) == Len(s) <= Len(t) /\ SubSeq(t, 1, Len(s)) = s

\* Two rows are the same mapping: the same key/value pairs.
SameRow(a, b) == {a[i] : i \in 1..Len(a)} = {b[i] : i \in 1..Len(b)}

SameRows(a, b) == Len(a) = Len(b) /\ \A i \in 1..Len(a) : SameRow(a[i], b[i])

\* The same rows in the same order and the same header list, sheet by sheet.
SameSheets(f, g) ==
    \A i \in 1..Len(SheetNames) :
        LET n == SheetNames[i] IN
        /\ DHas(f.sheets, n) <=> DHas(g.sheets, n)
        /\ DHas(f.sheets, n) => SameRows(DGet(f.sheets, n), DGet(g.sheets, n))
        /\ DHas(f.headers, n) <=> DHas(g.headers, n)
        /\ DHas(f.headers, n) => DGet(f.headers, n) = DGet(g.headers, n)

YamlRoundTrip ==
    <<"read_xlsform", "write_yaml", "read_yaml", "write_xlsform", "read_xlsform">>

MarkdownRoundTrip ==
    <<"read_xlsform", "write_markdown", "read_markdown", "write_xlsform", "read_xlsform">>

\* C1: for every Form F that read_xlsform returns, write_yaml, read_yaml,
\* write_xlsform and read_xlsform all succeed in turn and end with a Form
\* that has F's rows, in F's order, and F's header lists.
C1_YamlRoundTrip ==
    (hist # <<>> /\ IsPrefix(Ops, YamlRoundTrip) /\ form0.yxf) =>
        /\ err = NoErr
        /\ Ops = YamlRoundTrip => SameSheets(form, form0)

\* C2: for every Form F that read_xlsform returns, the Form read back after
\* write_markdown, read_markdown, write_xlsform and read_xlsform has F's
\* rows, every '#' comment in the row it was in, and F's header lists.
C2_MarkdownRoundTrip ==
    (Ops = MarkdownRoundTrip /\ err = NoErr) => SameSheets(form, form0)

\* The Forms of C3: no row is empty, every key of a row is in the HeaderSpec
\* of its sheet, no value is the empty string.
SpacerFree(f) ==
    \A i \in 1..Len(f.sheets) :
        /\ DHas(f.headers, f.sheets[i][1])
        /\ \A j \in 1..Len(f.sheets[i][2]) :
              LET row == f.sheets[i][2][j] IN
              /\ row # <<>>
              /\ \A k \in 1..Len(row) :
                    /\ SeqHas(DGet(f.headers, f.sheets[i][1]), row[k][1])
                    /\ row[k][2] # <<>>

WrittenAndReadBack ==
    /\ Len(hist) \in 2..3
    /\ hist[2].op = "write_xlsform"
    /\ Len(hist) = 3 => hist[3].op = "read_xlsform"

\* C3: for every Form F with non-empty rows, keys in the HeaderSpec and
\* non-empty values, write_xlsform(F) succeeds and read_xlsform of its
\* output returns exactly F's rows in F's order and F's header lists.
C3_WriteThenRead ==
    (form0.yxf /\ SpacerFree(form0) /\ WrittenAndReadBack) =>
        /\ err = NoErr
        /\ Len(hist) = 3 => SameSheets(form, form0)

\* C4: after ensure_yxf_comment(form, label, format) on a Form with a survey
\* sheet, also one with zero rows, the first survey row has the '#' value
\* "Converted by yxf, from {label}. Edit the {format} file instead of the
\* Excel file.".
C4_FirstRowCarriesComment ==
    (LastEnsure /\ DHas(prev.sheets, "survey")) =>
        /\ err = NoErr
        /\ DGet(form.sheets, "survey") # <<>>
        /\ DGetOr(DGet(form.sheets, "survey")[1], HASH, None)
              = DesiredComment(LastCall.name, LastCall.fmt)

SameCallTwice ==
    /\ Len(hist) >= 2
    /\ IsEnsure(LastCall)
    /\ hist[Len(hist) - 1] = LastCall

\* C5: ensure_yxf_comment applied a second time with the same label and
\* format returns and leaves the Form exactly as the first application
\* left it: same rows, same first-row '#', same HeaderSpec.
C5_Idempotent == SameCallTwice => (err = NoErr /\ form = prev)

\* The second of two equal calls ran on a Form that the first one changed.
C5_Witness == SameCallTwice /\ err = NoErr /\ form = prev /\ form # form0

\* C6: after ensure_yxf_comment on a Form that a reader returned, '#' is in
\* survey's HeaderSpec at index 0; when it was absent it is put in front of
\* the other headers, which keep their order.
C6_CommentHeaderFirst ==
    (LastIs("ensure_yxf_comment") /\ err = NoErr) =>
        LET hs == DGet(form.headers, "survey")
            old == DGet(prev.headers, "survey")
        IN  /\ hs # <<>>
            /\ hs[1] = HASH
            /\ ~SeqHas(old, HASH) => hs = <<HASH>> \o old

\* The rows of sheet i of f that hold a key outside the sheet's HeaderSpec.
OffendingRows(f, i) ==
    {j \in 1..Len(f.sheets[i][2]) :
        \E k \in 1..Len(f.sheets[i][2][j]) :
            ~SeqHas(DGet(f.headers, f.sheets[i][1]), f.sheets[i][2][j][k][1])}

OffendingSheets(f) == {i \in 1..Len(f.sheets) : OffendingRows(f, i) # {}}

\* C7: write_xlsform on a Form with a row key outside the HeaderSpec raises
\* InvalidKeyError with the first such key of the row, the row's name or
\* "(unnamed)", and the sheet, and no workbook has been saved.
C7_InvalidKey ==
    (LastIs("write_xlsform") /\ OffendingSheets(form) # {}) =>
        LET i == Least(OffendingSheets(form))
            row == form.sheets[i][2][Least(OffendingRows(form, i))]
            keys == DGet(form.headers, form.sheets[i][1])
            k == Least({k \in 1..Len(row) : ~SeqHas(keys, row[k][1])})
        IN  /\ err.type = "InvalidKeyError"
            /\ err.key = row[k][1]
            /\ err.row = (IF DHas(row, NAME) THEN DGet(row, NAME) ELSE UNNAMED)
            /\ err.sheet = form.sheets[i][1]
            /\ wb = <<>>

\* A row with two keys outside the HeaderSpec and no name was refused.
C7_Witness ==
    /\ LastIs("write_xlsform")
    /\ err.type = "InvalidKeyError"
    /\ err.key = S("bogus")
    /\ err.row = UNNAMED
    /\ wb = <<>>

\* The header row of the grid holds '#', and not in its first cell.
HeaderRowMisplaced(grid) ==
    /\ grid[1][1] # StrCell(HASH)
    /\ \E i \in 2..Len(grid[1]) : grid[1][i] = StrCell(HASH)

MisplacedSheets(book) ==
    {i \in 1..Len(SheetNames) :
        DHas(book, SheetNames[i]) /\ HeaderRowMisplaced(DGet(book, SheetNames[i]))}

\* C8: read_xlsform raises CommentColumnPositionError for the first of
\* survey, choices, settings whose header row holds '#' but not first, and
\* does not raise it when every header row has '#' first or has no '#'.
C8_CommentColumnPosition ==
    LastIs("read_xlsform") =>
        IF MisplacedSheets(wb) # {}
        THEN /\ err.type = "CommentColumnPositionError"
             /\ err.sheet = SheetNames[Least(MisplacedSheets(wb))]
        ELSE err.type # "CommentColumnPositionError"

\* The settings sheet was refused, after survey and choices had passed.
C8_Witness ==
    /\ LastIs("read_xlsform")
    /\ err.type = "CommentColumnPositionError"
    /\ err.sheet = "settings"
    /\ DHas(wb, "choices")

InFixedOrder(names) ==
    /\ \A i \in 1..Len(names) : SeqHas(SheetNames, names[i])
    /\ \A i, j \in 1..Len(names) :
          i < j => (CHOOSE a \in 1..3 : SheetNames[a] = names[i])
                     < (CHOOSE b \in 1..3 : SheetNames[b] = names[j])

\* C9: read_xlsform of a workbook without a survey sheet raises, whatever
\* other sheets there are; a Form it returns has survey, a HeaderSpec for
\* survey, and only sheets of survey, choices, settings, in that order.
C9_SurveyRequired ==
    LastIs("read_xlsform") =>
        /\ ~DHas(wb, "survey") => err # NoErr
        /\ err = NoErr =>
              /\ DHas(form.sheets, "survey")
              /\ DHas(form.headers, "survey")
              /\ InFixedOrder(DKeys(form.sheets))
              /\ DKeys(form.headers) = DKeys(form.sheets)

\* A workbook with two other sheets and no survey was refused.
C9_Witness ==
    /\ LastIs("read_xlsform")
    /\ ~DHas(wb, "survey")
    /\ Len(wb) = 2
    /\ err.type = "MissingSurveySheetError"

\* C10: read_yaml raises MissingYxfMetadataError when the document has no
\* 'yxf' entry, with or without 'survey', MissingSurveyEntryError when it
\* has 'yxf' but no 'survey', the parser's error when the text is
\* malformed, and otherwise returns the parsed document.
C10_ReadYamlErrors ==
    LastIs("read_yaml") =>
        CASE ydoc.kind = "malformed" -> err.type = "YAMLError"
          [] ydoc.kind # "malformed" /\ ~ydoc.data.yxf ->
                err.type = "MissingYxfMetadataError"
          [] ydoc.kind # "malformed" /\ ydoc.data.yxf
                /\ ~DHas(ydoc.data.sheets, "survey") ->
                err.type = "MissingSurveyEntryError"
          [] OTHER -> err = NoErr /\ form = ydoc.data

\* A document with neither 'yxf' nor 'survey' was refused for 'yxf'.
C10_Witness ==
    /\ LastIs("read_yaml")
    /\ ydoc.kind = "text"
    /\ ~ydoc.data.yxf
    /\ ~DHas(ydoc.data.sheets, "survey")
    /\ err.type = "MissingYxfMetadataError"

NonEmptyValue(v) == v # None /\ v # <<>>

\* The positions of args.values that hold a non-empty value.
ValuePositions == {i \in 1..Len(args.values) : NonEmptyValue(args.values[i])}

HeaderAbsent(i) == i > Len(args.headers) \/ args.headers[i] = None

\* C11: row_to_dict raises MissingHeaderError whenever a non-empty value
\* sits at a position without a header, be the header None or the position
\* past the end of headers; it never drops a non-empty value silently.
C11_ValueWithoutHeader ==
    (ret # <<>> /\ \E i \in ValuePositions : HeaderAbsent(i)) =>
        ret[1].err.type = "MissingHeaderError"

\* The positions present in both lists whose value is non-empty, in
\* increasing order.
RECURSIVE KeptFrom(_)
KeptFrom(i) ==
    IF i > Min(Len(args.headers), Len(args.values)) THEN <<>>
    ELSE (IF i \in ValuePositions THEN <<i>> ELSE <<>>) \o KeptFrom(i + 1)

ExpectedRow ==
    LET kept == KeptFrom(1) IN
    [n \in 1..Len(kept) |-> <<args.headers[kept[n]], args.values[kept[n]]>>]

DistinctKeptHeaders ==
    LET kept == KeptFrom(1) IN
    \A m, n \in 1..Len(kept) : m # n => args.headers[kept[m]] # args.headers[kept[n]]

\* C12 as stated: when row_to_dict returns, the mapping holds exactly the
\* pairs (headers[i], values[i]) of the positions in both lists with a
\* non-empty value, in increasing position order.
C12_ExactPairs ==
    (ret # <<>> /\ ret[1].err = NoErr) =>
        LET row == ret[1].row
            kept == KeptFrom(1)
            First(n) == Least({i \in 1..Len(kept) : args.headers[kept[i]] = row[n][1]})
        IN  /\ {row[n] : n \in 1..Len(row)} = {ExpectedRow[i] : i \in 1..Len(kept)}
            /\ \A m, n \in 1..Len(row) : m < n => First(m) < First(n)

\* C12, amended: the same, when the headers of these positions are pairwise
\* distinct; the mapping then has no empty value and no key for a header
\* without a value.
C12_ExactPairsDistinct ==
    (ret # <<>> /\ ret[1].err = NoErr /\ DistinctKeptHeaders) =>
        /\ ret[1].row = ExpectedRow
        /\ \A n \in 1..Len(ret[1].row) : NonEmptyValue(ret[1].row[n][2])

\* Two pairs were kept and an empty value between them was skipped.
C12_Witness ==
    /\ ret # <<>>
    /\ ret[1].err = NoErr
    /\ DistinctKeptHeaders
    /\ args.values = <<S("x"), <<>>, S("y")>>
    /\ Len(args.headers) = 3
    /\ Len(ret[1].row) = 2

(***************************************************************************)
(* read_markdown on Markdown files.                                        *)
(***************************************************************************)
NamesSheet(node) == node.tag = "h2" \/ (node.tag = "p" /\ IsDirective(node.content))

NameOf(node) == IF node.tag = "h2" THEN node.content ELSE DirectiveName(node.content)

InvalidName(i) == NamesSheet(md[i]) /\ NameOf(md[i]) \notin {S("survey"), S("choices"), S("settings")}

TableOutside(i) == md[i].tag = "table" /\ \A j \in 1..(i - 1) : ~NamesSheet(md[j])

OffendingNodes == {i \in 1..Len(md) : InvalidName(i) \/ TableOutside(i)}

MarkdownWasRead == Ops = <<"read_markdown">>

\* C13: read_markdown takes a table only in a sheet context, which only a
\* level-2 heading or a %% directive named survey, choices or settings opens:
\* a document with a heading or directive of another name, or with a table
\* before any heading or directive, is not read; the error of the first such
\* node is InvalidSheetNameError, respectively NoSheetNameError, and carries
\* the line of that node.
C13_SheetContext ==
    MarkdownWasRead =>
        /\ OffendingNodes # {} => err # NoErr
        /\ (OffendingNodes # {} /\ \A j \in 1..(Least(OffendingNodes) - 1) : md[j].tag # "table")
              => err.type \in {"InvalidSheetNameError", "NoSheetNameError"}
        /\ err.type \in {"InvalidSheetNameError", "NoSheetNameError"} =>
              /\ OffendingNodes # {}
              /\ err.line = Least(OffendingNodes) - 1
              /\ err.type = (IF InvalidName(Least(OffendingNodes))
                             THEN "InvalidSheetNameError" ELSE "NoSheetNameError")
              /\ InvalidName(Least(OffendingNodes)) => err.key = NameOf(md[Least(OffendingNodes)])

C13_Witness ==
    /\ MarkdownWasRead
    /\ Len(md) = 4 /\ md[1].tag = "h2" /\ md[2].tag = "table" /\ md[3].tag = "h1" /\ md[4].tag = "p"
    /\ err.type = "InvalidSheetNameError" /\ err.line = 3

IsComment(node) == node.tag = "p" /\ ~IsDirective(node.content)

\* A section: the heading md[i], the k comments after it, then a table whose
\* first header is not "#".  The section ends there: the document ends or a
\* heading follows, and no later heading or directive names the same sheet.
SectionAt(i, k) ==
    /\ k >= 1 /\ i + k + 1 <= Len(md)
    /\ md[i].tag = "h2"
    /\ \A j \in (i + 1)..(i + k) : IsComment(md[j])
    /\ md[i + k + 1].tag = "table" /\ md[i + k + 1].head[1] # HASH
    /\ i + k + 1 < Len(md) => md[i + k + 2].tag = "h2"
    /\ \A j \in (i + k + 2)..Len(md) : NamesSheet(md[j]) => NameOf(md[j]) # md[i].content

\* The cells of a table row under the table's own headers, empty cells left out.
RECURSIVE CellsFrom(_, _, _)
CellsFrom(head, cells, j) ==
    IF j > Len(head) \/ j > Len(cells) THEN <<>>
    ELSE (IF cells[j] # <<>> THEN <<<<head[j], cells[j]>>>> ELSE <<>>)
             \o CellsFrom(head, cells, j + 1)

SectionRows(i, k) ==
    LET t == md[i + k + 1]
        data == [r \in 1..Len(t.body) |-> CellsFrom(t.head, t.body[r], 1)]
    IN  [j \in 1..k |-> <<<<HASH, md[i + j].content>>>>]
            \o SelectSeq(data, LAMBDA row : row # <<>>)

\* C14: when read_markdown returns, a section of a heading, k >= 1 comments
\* and a table whose first header is not "#" gives the sheet k rows
\* {"#": text} followed by the non-empty data rows of the table, each under
\* the table's own headers, and the header list "#" followed by the table's
\* headers.
C14_CommentsBeforeTable ==
    (MarkdownWasRead /\ err = NoErr) =>
        \A i \in 1..Len(md) : \A k \in 1..Len(md) :
            SectionAt(i, k) =>
                /\ DGet(form.sheets, md[i].content[1]) = SectionRows(i, k)
                /\ DGet(form.headers, md[i].content[1]) = <<HASH>> \o md[i + k + 1].head

C14_Witness ==
    /\ MarkdownWasRead /\ err = NoErr
    /\ SectionAt(1, 2) /\ Len(md[4].body) = 3
    /\ Len(DGet(form.sheets, "survey")) = 4

(***************************************************************************)
(* write_markdown: what is rendered for a sheet.                           *)
(***************************************************************************)
Plain(v) == \A c \in 1..Len(v) : v[c] \notin {"\\", "|", "\n", " "}

\* The comments of a sheet, in row order.
RECURSIVE CommentsOf(_)
CommentsOf(rows) ==
    IF rows = <<>> THEN <<>>
    ELSE (IF DHas(Head(rows), HASH) /\ DGet(Head(rows), HASH) # <<>>
          THEN <<DGet(Head(rows), HASH)>> ELSE <<>>) \o CommentsOf(Tail(rows))

\* The rows that have a cell besides the comment.
RECURSIVE TableRowsOf(_)
TableRowsOf(rows) ==
    IF rows = <<>> THEN <<>>
    ELSE (IF \E e \in 1..Len(Head(rows)) : Head(rows)[e][1] # HASH
          THEN <<Head(rows)>> ELSE <<>>) \o TableRowsOf(Tail(rows))

\* The blocks md[at], ... are the heading of sheet n, one paragraph per
\* comment, and a table without comment column whose column j holds the
\* values of the header after the comment column's.
SectionRendered(f, n, at) ==
    LET rows == DGet(f.sheets, n)
        hs == DGet(f.headers, n)
        comments == CommentsOf(rows)
        shown == TableRowsOf(rows)
        shift == IF hs[1] = HASH THEN 1 ELSE 0
        t == md[at + Len(comments) + 1]
    IN  /\ at + Len(comments) + 1 <= Len(md)
        /\ md[at] = Heading(S(n))
        /\ \A c \in 1..Len(comments) : md[at + c] = Para(comments[c])
        /\ t.tag = "table"
        /\ Len(t.head) = Len(hs) - shift
        /\ \A j \in 1..Len(t.head) : t.head[j] # HASH /\ t.head[j] = hs[j + shift]
        /\ Len(t.body) = Len(shown)
        /\ \A i \in 1..Len(shown) :
              /\ Len(t.body[i]) = Len(t.head)
              /\ \A j \in 1..Len(t.head) :
                    /\ ~DHas(shown[i], hs[j + shift]) => t.body[i][j] = <<>>
                    /\ (DHas(shown[i], hs[j + shift]) /\ Plain(DGet(shown[i], hs[j + shift])))
                          => t.body[i][j] = DGet(shown[i], hs[j + shift])

RECURSIVE SectionsRendered(_, _, _)
SectionsRendered(f, i, at) ==
    IF i > Len(SheetNames) THEN at = Len(md) + 1
    ELSE IF ~DHas(f.sheets, SheetNames[i]) THEN SectionsRendered(f, i + 1, at)
    ELSE /\ SectionRendered(f, SheetNames[i], at)
         /\ SectionsRendered(f, i + 1,
                at + Len(CommentsOf(DGet(f.sheets, SheetNames[i]))) + 2)

RECURSIVE SinglePass(_)
SinglePass(v) ==
    IF v = <<>> THEN <<>>
    ELSE (CASE Head(v) = "\\" -> <<"\\", "\\">>
            [] Head(v) = "|" -> <<"\\", "|">>
            [] Head(v) = "\n" -> <<" ">>
            [] OTHER -> <<Head(v)>>) \o SinglePass(Tail(v))

\* C16: when write_markdown returns, the text it puts in the table for a
\* value v is v with every backslash doubled and every pipe preceded by one
\* backslash, as one pass over v gives it (a line break becoming a space);
\* nothing is escaped twice.
C16_EscapedOnce ==
    (LastIs("write_markdown") /\ err = NoErr) =>
        \A n \in 1..Len(prev.sheets) :
            LET before == prev.sheets[n][2]
                after == DGet(form.sheets, prev.sheets[n][1])
            IN  /\ Len(after) = Len(before)
                /\ \A i \in 1..Len(before) : \A e \in 1..Len(before[i]) :
                      before[i][e][1] # HASH =>
                          /\ DHas(after[i], before[i][e][1])
                          /\ DGet(after[i], before[i][e][1]) = SinglePass(before[i][e][2])

C16_Witness ==
    /\ LastIs("write_markdown") /\ err = NoErr
    /\ DGet(prev.sheets, "survey") # <<>>
    /\ DHas(DGet(prev.sheets, "survey")[1], TYPE)
    /\ DGet(DGet(prev.sheets, "survey")[1], TYPE) = <<"\\", "|", "\\">>
    /\ DGet(DGet(form.sheets, "survey")[1], TYPE) = <<"\\", "\\", "\\", "|", "\\", "\\">>

(***************************************************************************)
(* write_markdown: multi-line values.                                      *)
(***************************************************************************)
\* One entry per table cell with a line break: the row's line in the sheet
\* (the header row is line 1) and the column.
MultiLineCells(rows) ==
    Flatten([i \in 1..Len(rows) |->
        LET multi == SelectSeq(rows[i], LAMBDA e : e[1] # HASH /\ SeqHas(e[2], "\n"))
        IN  [j \in 1..Len(multi) |-> <<i + 1, multi[j][1]>>]])

RECURSIVE MultiLineCellsFrom(_, _)
MultiLineCellsFrom(f, i) ==
    IF i > Len(SheetNames) THEN <<>>
    ELSE (IF DHas(f.sheets, SheetNames[i])
          THEN MultiLineCells(DGet(f.sheets, SheetNames[i])) ELSE <<>>)
             \o MultiLineCellsFrom(f, i + 1)

HasLineBreak(f) ==
    \E n \in 1..Len(f.sheets) : \E i \in 1..Len(f.sheets[n][2]) :
        \E e \in 1..Len(f.sheets[n][2][i]) : SeqHas(f.sheets[n][2][i][e][2], "\n")

\* C17: write_markdown does not fail on a Form with line breaks in its
\* cells; it logs one warning per table cell with a line break, with the
\* row's line and the column, and leaves no line break in a cell's text.
C17_MultiLineWarnings ==
    LastIs("write_markdown") =>
        /\ err = NoErr
        /\ log = MultiLineCellsFrom(prev, 1)
        /\ ~HasLineBreak(form)

C17_Witness ==
    /\ LastIs("write_markdown") /\ err = NoErr
    /\ Len(log) = 3 /\ log[1][1] = 2 /\ log[2][1] = 2 /\ log[3] = <<3, NAME>>

(***************************************************************************)
(* write_yaml on a Form with a sheet without rows.                         *)
(***************************************************************************)
EmptySheets(f) == {n \in 1..Len(f.sheets) : f.sheets[n][2] = <<>>}

Placeholder(n) == <<<<HASH, <<"Empty ", n, " sheet">>>>>>

\* C18: write_yaml of a Form with a sheet without rows returns a document
\* that read_yaml reads, in which that sheet is the one row
\* {"#": "Empty <sheet> sheet"} and "#" is the first header of the sheet.
C18_EmptySheetWritten ==
    (LastIs("write_yaml") /\ EmptySheets(prev) # {}) =>
        /\ err = NoErr
        /\ read_yaml(ydoc).err = NoErr
        /\ \A n \in EmptySheets(prev) :
              LET name == prev.sheets[n][1] IN
              /\ DGet(ydoc.data.sheets, name) = <<Placeholder(name)>>
              /\ DGet(ydoc.data.headers, name) # <<>>
              /\ DGet(ydoc.data.headers, name)[1] = HASH

(***************************************************************************)
(* main: the output file.                                                  *)
(***************************************************************************)
\* C19: for every conversion, main fails with the "already exists" error
\* when the output path exists and --force is not given, before anything is
\* read and with the output file as it was; with --force, or without an
\* existing output, the check passes and the conversion runs.
C19_ExistingOutput ==
    (cli.pc \notin {"none", "main"} /\ cli.dir # "other") =>
        IF cli.existed /\ ~cli.force
        THEN /\ cli.pc = "failed" /\ err.type = "AlreadyExistsError"
             /\ hist = <<>> /\ form = EmptyForm
             /\ cli.target = "old"
        ELSE /\ err.type # "AlreadyExistsError"
             /\ cli.pc = "failed" => hist # <<>>

C19_Witness ==
    /\ cli.dir = "md-xlsx" /\ cli.existed /\ ~cli.force
    /\ cli.pc = "failed" /\ err.type = "AlreadyExistsError" /\ md # <<>>

C19_WitnessForce ==
    /\ cli.dir = "yaml-xlsx" /\ cli.existed /\ cli.force
    /\ cli.pc = "done" /\ cli.target = "new"

(***************************************************************************)
(* The readers: survey.                                                    *)
(***************************************************************************)
LastIsReader == hist # <<>> /\ LastCall.op \in {"read_xlsform", "read_yaml", "read_markdown"}

\* C20: a Form that read_xlsform, read_yaml or read_markdown returns has a
\* survey sheet and a header list for survey.
C20_FormHasSurvey ==
    (LastIsReader /\ err = NoErr) =>
        /\ DHas(form.sheets, "survey")
        /\ DHas(form.headers, "survey")

(***************************************************************************)
(* The readers: the Form they return.                                      *)
(***************************************************************************)
CommentFirstIn(hs) == SeqHas(hs, HASH) => hs[1] = HASH

\* C21: in a Form that a reader returns, a header list that contains "#" has
\* it as its first entry; an input whose header list has "#" elsewhere is
\* not read.
C21_CommentHeaderFirstRead ==
    (LastIsReader /\ err = NoErr) =>
        \A n \in 1..Len(form.headers) : CommentFirstIn(form.headers[n][2])

KeysInHeaders(f, n) ==
    /\ DHas(f.headers, n)
    /\ \A i \in 1..Len(DGet(f.sheets, n)) : \A e \in 1..Len(DGet(f.sheets, n)[i]) :
          SeqHas(DGet(f.headers, n), DGet(f.sheets, n)[i][e][1])

\* C22: in a Form that a reader returns, every key of every row of a sheet
\* is in the header list of the sheet.
C22_RowKeysInHeaders ==
    (LastIsReader /\ err = NoErr) =>
        \A n \in 1..Len(form.sheets) : KeysInHeaders(form, form.sheets[n][1])

AllSheetNamesValid(d) == \A n \in 1..Len(d) : SeqHas(SheetNames, d[n][1])

\* C23: a Form that a reader returns has no sheet besides survey, choices
\* and settings, and neither has a workbook that write_xlsform wrote.
C23_SheetNames ==
    /\ (LastIsReader /\ err = NoErr) => AllSheetNamesValid(form.sheets)
    /\ (LastIs("write_xlsform") /\ err = NoErr) => AllSheetNamesValid(wb)

(***************************************************************************)
(* ensure_yxf_comment: what it changes.                                    *)
(***************************************************************************)
IsProvenance(v) == v # <<>> /\ v[1] = "Converted by yxf,"

CarriesProvenance(row) == DHas(row, HASH) /\ IsProvenance(DGet(row, HASH))

\* Everything but survey's rows and survey's header list.
OtherSheets_(f) == SelectSeq(f.sheets, LAMBDA e : e[1] # "survey")

OtherHeaders(f) == SelectSeq(f.headers, LAMBDA e : e[1] # "survey")

FrameKept(old, new, desired) ==
    LET before == DGet(old.sheets, "survey")
        after == DGet(new.sheets, "survey")
    IN  /\ IF CarriesProvenance(before[1])
           THEN after = [before EXCEPT ![1] = DPut(@, HASH, desired)]
           ELSE after = <<<<<<HASH, desired>>>>>> \o before
        /\ OtherSheets_(new) = OtherSheets_(old)
        /\ OtherHeaders(new) = OtherHeaders(old)

EnsuredNonEmpty ==
    /\ LastEnsure /\ err = NoErr
    /\ DHas(prev.sheets, "survey") /\ DGet(prev.sheets, "survey") # <<>>

\* C24: a reconciliation of a Form with survey rows puts one new row
\* {"#": comment} in front when the first row has no "#" that starts with
\* "Converted by yxf,", and otherwise only sets the "#" of the first row; the
\* rows that were there keep their order and their other entries, and the
\* other sheets and their header lists are unchanged.
C24_EnsureFrame ==
    EnsuredNonEmpty => FrameKept(prev, form, DesiredComment(LastCall.name, LastCall.fmt))

\* C24 for ensure_yxf_comment of excel.py alone.
C24_EnsureFrameExcel ==
    (EnsuredNonEmpty /\ LastIs("ensure_yxf_comment")) =>
        FrameKept(prev, form, DesiredComment(LastCall.name, LastCall.fmt))

(***************************************************************************)
(* write_xlsform: the grid of a sheet.                                     *)
(***************************************************************************)
ListNameOf(row) == IF DHas(row, LIST_NAME) THEN DGet(row, LIST_NAME) ELSE None

\* b(k): the rows among 1..k whose type is begin_group.
GroupsUpTo(rows, k) ==
    Cardinality({j \in 1..k : DHas(rows[j], TYPE) /\ DGet(rows[j], TYPE) = S("begin_group")})

\* c(k): the rows j in 2..k whose list_name differs from that of row j - 1.
ListChangesUpTo(rows, k) ==
    Cardinality({j \in 2..k : ListNameOf(rows[j]) # ListNameOf(rows[j - 1])})

GridRowOf(rows, k) == 1 + k + GroupsUpTo(rows, k) + ListChangesUpTo(rows, k)

CellOf(v) == IF v = <<>> THEN [t |-> "none", s |-> <<>>] ELSE [t |-> "str", s |-> v]

GridLaidOut(rows, keys, grid) ==
    LET used == {GridRowOf(rows, k) : k \in 1..Len(rows)} IN
    /\ Len(grid) = IF rows = <<>> THEN 1 ELSE GridRowOf(rows, Len(rows))
    /\ Len(grid[1]) = Len(keys)
    /\ \A j \in 1..Len(keys) : grid[1][j] = CellOf(keys[j])
    /\ \A k \in 1..Len(rows) : \A j \in 1..Len(keys) :
          grid[GridRowOf(rows, k)][j] =
              IF DHas(rows[k], keys[j]) THEN CellOf(DGet(rows[k], keys[j]))
              ELSE [t |-> "none", s |-> <<>>]
    /\ \A r \in 2..Len(grid) : r \notin used =>
          \A j \in 1..Len(grid[r]) : grid[r][j].t = "none"

\* C25: a workbook that write_xlsform wrote holds, for every sheet, the
\* header list in row 1 and the k-th row in row 1 + k + b(k) + c(k), every
\* value in the column of its header; the rows between are blank.
C25_GridLayout ==
    (LastIs("write_xlsform") /\ err = NoErr) =>
        \A n \in 1..Len(prev.sheets) :
            /\ DHas(wb, prev.sheets[n][1])
            /\ GridLaidOut(prev.sheets[n][2], DGet(prev.headers, prev.sheets[n][1]),
                           DGet(wb, prev.sheets[n][1]))

\* A survey whose second row opens a group and changes list_name, and
\* choices with two lists.
C25_Witness ==
    /\ LastIs("write_xlsform") /\ err = NoErr
    /\ DHas(prev.sheets, "choices") /\ Len(DGet(wb, "choices")) = 4
    /\ Len(DGet(prev.sheets, "survey")) = 2
    /\ GridRowOf(DGet(prev.sheets, "survey"), 2) = 5

(***************************************************************************)
(* read_xlsform: cells without a header.                                   *)
(***************************************************************************)
HasText(c) == c.t = "str" /\ c.s # <<>>

\* A data row of the sheet has a text in a column whose header cell is empty
\* or missing.
CellWithoutHeader(grid) ==
    \E r \in 2..Len(grid) : \E j \in 1..Len(grid[r]) :
        /\ HasText(grid[r][j])
        /\ (j > Len(grid[1]) \/ ~HasText(grid[1][j]))

WorkbookWasRead == Ops = <<"read_xlsform">>

\* C26: read_xlsform does not return when a data row of survey, choices or
\* settings has a non-empty cell in a column without a header name; it
\* raises MissingHeaderError, and no row of a Form it returns has the empty
\* string as a key.
C26_CellWithoutHeader ==
    WorkbookWasRead =>
        /\ (\E n \in 1..Len(wb) : SeqHas(SheetNames, wb[n][1]) /\ CellWithoutHeader(wb[n][2]))
              => err # NoErr
        /\ err = NoErr =>
              \A n \in 1..Len(form.sheets) : \A i \in 1..Len(form.sheets[n][2]) :
                  ~DHas(form.sheets[n][2][i], <<>>)

(***************************************************************************)
(* write_markdown: the Form after the call.                                *)
(***************************************************************************)
\* C27: write_markdown leaves the Form it is given as it was: the rows keep
\* their "#" entries and their values, the header lists keep their "#".
C27_FormNotModified ==
    (LastIs("write_markdown") /\ err = NoErr) => form = prev

(***************************************************************************)
(* read_markdown: which sheet a table's rows go to.                        *)
(***************************************************************************)
\* The name that the most recent heading or directive before node i gave.
ContextOf(i) ==
    LET named == {j \in 1..(i - 1) : NamesSheet(md[j])}
    IN  IF named = {} THEN <<>>
        ELSE NameOf(md[CHOOSE j \in named : \A m \in named : m <= j])

\* The rows of the tables that stand in the context of sheet n.
TableRowsFor(n) ==
    UNION {{CellsFrom(md[i].head, md[i].body[r], 1) : r \in 1..Len(md[i].body)} :
           i \in {i \in 1..Len(md) : md[i].tag = "table" /\ ContextOf(i) = S(n)}}

HasCell(row) == \E e \in 1..Len(row) : row[e][1] # HASH

\* C28: in a Form that read_markdown returns, the rows of a sheet that come
\* from a table come from a table in the context of that sheet: no table row
\* of one sheet is in the row list of another.
C28_RowsInOwnSheet ==
    (MarkdownWasRead /\ err = NoErr) =>
        \A n \in 1..Len(form.sheets) : \A i \in 1..Len(form.sheets[n][2]) :
            HasCell(form.sheets[n][2][i]) =>
                form.sheets[n][2][i] \in TableRowsFor(form.sheets[n][1])

\* C28 for documents without directives.
C28_RowsInOwnSheetHeadings ==
    (MarkdownWasRead /\ err = NoErr /\ \A i \in 1..Len(md) : ~IsDirective(md[i].content)) =>
        \A n \in 1..Len(form.sheets) : \A i \in 1..Len(form.sheets[n][2]) :
            HasCell(form.sheets[n][2][i]) =>
                form.sheets[n][2][i] \in TableRowsFor(form.sheets[n][1])

(***************************************************************************)
(* Sequences of reconciliations.                                           *)
(***************************************************************************)
SurveyOf(f) == DGet(f.sheets, "survey")

ProvenanceRows(f) == Len(SelectSeq(SurveyOf(f), CarriesProvenance))

\* A reconciliation that is not the first one and returns.
LaterEnsureStep ==
    /\ EnsureCalls >= 1
    /\ hist' # hist /\ IsEnsure(hist'[Len(hist')])
    /\ err' = NoErr

OnlyFirstCommentSet ==
    /\ Len(SurveyOf(form')) = Len(SurveyOf(form))
    /\ form' = SetSheet(form, "survey",
                   [SurveyOf(form) EXCEPT ![1] =
                       DPut(@, HASH, DesiredComment(hist'[Len(hist')].name,
                                                    hist'[Len(hist')].fmt))])

\* C29: in a sequence of reconciliations of a Form with survey rows, every
\* call after the first leaves the number of survey rows as it is and
\* changes nothing but the "#" of the first row, and survey never has more
\* than one provenance row beyond those of the Form that was read.
C29_OnlyFirstAddsRow ==
    /\ [][LaterEnsureStep => OnlyFirstCommentSet]_vars
    /\ []((EnsureCalls >= 1 /\ err = NoErr) => ProvenanceRows(form) <= ProvenanceRows(form0) + 1)

\* A second reconciliation, under another label, after the first added a row.
C29_Witness ==
    /\ EnsureCalls = 2 /\ err = NoErr
    /\ hist[Len(hist)].name # hist[Len(hist) - 1].name
    /\ form # prev
    /\ Len(SurveyOf(form)) = Len(SurveyOf(form0)) + 1

(***************************************************************************)
(* main: the output file of a failed conversion.                           *)
(***************************************************************************)
\* C30: when a conversion to Excel fails, the target file is as it was
\* before main started: absent, or the file that was there.
C30_NoPartialOutput ==
    (cli.dir \in {"yaml-xlsx", "md-xlsx"} /\ cli.pc = "failed") =>
        cli.target = IF cli.existed THEN "old" ELSE "absent"

====
